---- MODULE Spec2Model ----
(***************************************************************************)
(* Model of the Blender add-on "Convex Decomposition"                      *)
(* (src/convex_decomposition.py, with the Clear operator of the earlier    *)
(* revision src/blender2unreal.py).                                        *)
(*                                                                         *)
(* The host scene is the state: the objects of bpy.data.objects with their *)
(* names, parents and collections, the selection, the active object and    *)
(* the interaction mode.  Names are sequences of one-character strings so  *)
(* that str.startswith and the f-strings of the code are computed on real  *)
(* characters.  ConvexDecompositionRunOperator.execute is followed call by *)
(* call (pc); while it runs nothing else does: the add-on is               *)
(* single-threaded and the solver is awaited by subprocess.run.            *)
(*                                                                         *)
(* Specifications:                                                         *)
(*   Spec       execute of the Run operator on a scene, step by step       *)
(*   MergeSpec  merge_obj_files (src/mouse_position.py) on lists of files  *)
(*   CmdSpec    the command lines run_vhacd and run_coacd build            *)
(*   TmpSpec    the temporary files of execute in src/mouse_position.py    *)
(*   XfSpec     the re-parent step of execute on transforms                *)
(***************************************************************************)
EXTENDS Integers, Sequences, FiniteSets, TLC

VARIABLES
    objects,      \* bpy.data.objects: id -> [name, parent, colls, run, seg]
    selected,     \* bpy.context.selected_objects (set of ids)
    active,       \* bpy.context.view_layer.objects.active (id or None)
    mode,         \* bpy.context.mode
    collections,  \* names of bpy.data.collections
    solver,       \* props.solver
    binaries,     \* backends whose configured binary path names an existing file
    pc,           \* position of execute
    via,          \* how the running operator was invoked: "panel" or "direct"
    root,         \* root_obj of the running execute (id or None)
    runs,         \* number of execute calls so far
    tmpdirs,      \* number of directories created by tempfile.mkdtemp
    srcFiles,     \* number of src.obj files written by the exporter
    hullFile,     \* content of the solver's declared output file, or NoFile
    proc,         \* [state, backend, binary, code]: the solver child process
    spawned,      \* number of solver processes started
    err,          \* the report or exception that ended the last execute
    guard,        \* bookkeeping: the SelectionGuard block that just exited
    scene0,       \* bookkeeping: the scene when the running execute began
    cur,          \* bookkeeping: [root, file] of the running execute
    prev,         \* bookkeeping: [root, file] of the execute that finished
                  \*   immediately before the running one, or NoRun
    hist,         \* bookkeeping: the steps execute has taken, in order
    hullObjs,     \* hull_objs: the list rename_hulls returned
    outFiles,     \* merge_obj_files: out_files, the contents of the files to merge
    merged,       \* merge_obj_files: what the call ended with
    callee,       \* run_vhacd / run_coacd: [rev, backend], the method called
    props,        \* run_vhacd / run_coacd: the property group it is given
    cmd,          \* run_vhacd / run_coacd: the command it runs, or NoCmd
    launch,       \* run_vhacd / run_coacd: [cwd, ret, read]: the working
                  \*   directory of the solver, the path returned, and the
                  \*   paths import_solver_results has read
    fooDir,       \* src/mouse_position.py: the files of the directory /tmp/foo
    opc,          \* src/mouse_position.py: position of execute
    oruns,        \* src/mouse_position.py: number of execute calls so far
    imported,     \* src/mouse_position.py: the document the last import read
    rootWorld,    \* root_obj.matrix_world
    hull,         \* a hull object: [basis, parent, pinv]
    world0,       \* bookkeeping: the hull's world matrix when it was imported
    xpc,          \* position of the re-parent step
    ret,          \* what the last execute of a scene operator returned
    location,     \* obj.location of every object (0 is the origin)
    exported,     \* what the last FBX/GLB export was given
    before,       \* bookkeeping: the scene when the last scene operator began
    ops,          \* number of scene operator calls so far
    dicer         \* src/dicer.py: position and locals of main / slice_obj

\* the state of ConvexDecompositionRunOperator.execute and of the scene
runVars == <<objects, selected, active, mode, collections, solver, binaries, pc,
             via, root, runs, tmpdirs, srcFiles, hullFile, proc, spawned, err,
             guard, scene0, cur, prev, hist, hullObjs>>

\* the state of merge_obj_files
mergeVars == <<outFiles, merged>>

\* what execute of src/convex_decomposition.py never touches
\* the state of run_vhacd / run_coacd building their command
cmdVars == <<callee, props, cmd, launch>>

\* the state of execute of src/mouse_position.py (with mergeVars)
tmpVars == <<fooDir, opc, oruns, imported>>

\* the state of the re-parent step of execute
xfVars == <<rootWorld, hull, world0, xpc>>

\* the state of the Select, export and split-by-face operators
opVars == <<ret, location, exported, before, ops>>

\* the state of src/dicer.py
dicerVars == <<dicer>>

otherVars == <<mergeVars, cmdVars, tmpVars, xfVars, opVars, dicerVars>>

vars == <<runVars, otherVars>>

(***************************************************************************)
(* Bounds of the model.                                                    *)
(***************************************************************************)
MaxHulls == 3     \* segments in one solver output file
MaxRuns == 2      \* execute calls in one behaviour
ShortBody == 1    \* vertex/face lines of a small segment
LongBody == 8     \* vertex/face lines of a large segment
MaxParts == 2     \* files handed to one call of merge_obj_files
MaxVerts == 2     \* vertex lines of one of those files

None == 0
NoFile == <<"no file">>
NoRun == [root |-> None, file |-> NoFile]
NoGuard == [block |-> "none"]
NoMerge == [state |-> "not called"]
NoCmd == <<>>
NoCallee == [rev |-> "none", backend |-> "none"]
NoLaunch == [cwd |-> <<>>, ret |-> <<>>, read |-> {}]
NoRet == [kind |-> "none", val |-> "none"]
NoExport == [objs |-> {}, at |-> <<>>]
NoCall == [op |-> "none"]
NoDicer == [pc |-> "off"]

\* merge_obj_files, run_vhacd / run_coacd, execute of src/mouse_position.py
\* and the re-parent step, each before it is called
MergeIdle == outFiles = <<>> /\ merged = NoMerge
CmdIdle == callee = NoCallee /\ props = <<>> /\ cmd = NoCmd /\ launch = NoLaunch
TmpIdle ==
    /\ fooDir = [src |-> NoFile, parts |-> <<>>, merged |-> NoFile]
    /\ opc = "idle"
    /\ oruns = 0
    /\ imported = NoFile
XfIdle == rootWorld = <<>> /\ hull = <<>> /\ world0 = <<>> /\ xpc = "off"
OpIdle ==
    /\ ret = NoRet
    /\ location = <<>>
    /\ exported = NoExport
    /\ before = NoCall
    /\ ops = 0
DicerIdle == dicer = NoDicer

(***************************************************************************)
(* Names.                                                                  *)
(***************************************************************************)
UCX == <<"U", "C", "X", "_">>
TmpHullPrefix == <<"_", "t", "m", "p", "h", "u", "l", "l", "_">>
HullCollectionName == "convex hulls"

Cube == <<"C", "u", "b", "e">>
CubeExtra == <<"C", "u", "b", "e", "E", "x", "t", "r", "a">>
Cube_1 == <<"C", "u", "b", "e", "_", "1">>

\* str.startswith
StartsWith(s, p) == Len(p) <= Len(s) /\ SubSeq(s, 1, Len(p)) = p

Digit(d) == <<"0", "1", "2", "3", "4", "5", "6", "7", "8", "9">>[d + 1]

\* str(i) of a non-negative int: its decimal digits
RECURSIVE Str(_)
Str(i) == IF i < 10 THEN <<Digit(i)>> ELSE Str(i \div 10) \o <<Digit(i % 10)>>

\* the prefix without its trailing delimiter, f"UCX_{root_obj.name}"
HullPrefixNoDelimiter(name) == UCX \o name

\* f"UCX_{root_obj.name}_"
HullPrefix(name) == UCX \o name \o <<"_">>

\* f"UCX_{parent.name}_{i}"
HullName(name, i) == UCX \o name \o <<"_">> \o Str(i)

(***************************************************************************)
(* The order of bpy.data.objects.  Blender keeps every ID list of          *)
(* bpy.data sorted by name (case-insensitive comparison of the bytes), on  *)
(* creation and on rename; iterating bpy.data.objects yields that order.   *)
(***************************************************************************)
Alphabet == <<".", "0", "1", "2", "3", "4", "5", "6", "7", "8", "9", "_",
              "a", "b", "c", "e", "h", "l", "m", "p", "r", "t", "u", "x">>

Lower(c) == CASE c = "U" -> "u" [] c = "C" -> "c" [] c = "X" -> "x"
              [] c = "E" -> "e" [] OTHER -> c

Ord(c) == CHOOSE i \in 1..Len(Alphabet) : Alphabet[i] = Lower(c)

RECURSIVE NameLess(_, _)
NameLess(a, b) ==
    IF b = <<>> THEN FALSE
    ELSE IF a = <<>> THEN TRUE
    ELSE IF Ord(Head(a)) # Ord(Head(b)) THEN Ord(Head(a)) < Ord(Head(b))
    ELSE NameLess(Tail(a), Tail(b))

\* o comes before p in bpy.data.objects (ids break ties between equal names)
Before(objs, o, p) ==
    \/ NameLess(objs[o].name, objs[p].name)
    \/ /\ ~NameLess(objs[p].name, objs[o].name)
       /\ o < p

\* the ids of S as the sequence in which bpy.data.objects yields them
RECURSIVE InDataOrder(_, _)
InDataOrder(objs, S) ==
    IF S = {} THEN <<>>
    ELSE LET first == CHOOSE o \in S : \A p \in S \ {o} : Before(objs, o, p)
         IN  <<first>> \o InDataOrder(objs, S \ {first})

Range(s) == {s[i] : i \in DOMAIN s}

(***************************************************************************)
(* Host operations on the scene.                                           *)
(***************************************************************************)
Ids(objs) == DOMAIN objs

Obj(name, parent, colls, run, seg) ==
    [name |-> name, parent |-> parent, colls |-> colls, run |-> run, seg |-> seg]

\* bpy.ops.object.delete() of the objects in gone: they leave bpy.data.objects,
\* and an object whose parent is deleted loses its parent.
DeleteObjects(objs, gone) ==
    [o \in Ids(objs) \ gone |->
        IF objs[o].parent \in gone
        THEN [objs[o] EXCEPT !.parent = None]
        ELSE objs[o]]

\* the n smallest ids not in use
RECURSIVE FreshIds(_, _)
FreshIds(used, n) ==
    IF n = 0 THEN <<>>
    ELSE LET i == CHOOSE i \in 1..(Cardinality(used) + 1) :
                      i \notin used /\ \A j \in 1..(i - 1) : j \in used
         IN  <<i>> \o FreshIds(used \cup {i}, n - 1)

(***************************************************************************)
(* SelectionGuard.                                                         *)
(***************************************************************************)
\* __enter__: the saved selection and active object
GuardEnter(sel, act) == [sel |-> sel, act |-> act]

\* __exit__ with the scene objs and the active object act at that moment:
\* the selection and active object it leaves, and the exception it raises.
\* Every guarded block runs after get_selected_object, so saved.sel holds
\* one object.
GuardExit(saved, objs, act) ==
    IF saved.act = None
    THEN \* select_all(DESELECT), then "assert self.active is not None" fails
         [sel |-> {}, act |-> act, exc |-> "AssertionError"]
    ELSE IF ~(saved.sel \subseteq Ids(objs))
    THEN \* obj.select_set on a removed object
         [sel |-> {}, act |-> act, exc |-> "ReferenceError"]
    ELSE IF saved.act \notin Ids(objs)
    THEN \* the selection is restored, assigning the removed object raises
         [sel |-> saved.sel, act |-> act, exc |-> "ReferenceError"]
    ELSE [sel |-> saved.sel, act |-> saved.act, exc |-> "none"]

(***************************************************************************)
(* Initial scenes.                                                         *)
(***************************************************************************)
\* A scene an artist can have: two mesh objects, a hull of each from an
\* earlier decomposition, and possibly an object whose name carries the
\* temporary hull prefix.
BaseScene ==
    (1 :> Obj(Cube, None, {"Collection"}, 0, -1)) @@
    (2 :> Obj(CubeExtra, None, {"Collection"}, 0, -1)) @@
    (3 :> Obj(HullName(Cube, 0), 1, {HullCollectionName}, 0, -1)) @@
    (4 :> Obj(HullName(CubeExtra, 0), 2, {HullCollectionName}, 0, -1))

StrayName == TmpHullPrefix \o <<"x">>

StrayScene == BaseScene @@ (5 :> Obj(StrayName, None, {"Collection"}, 0, -1))

\* the base scene with a third mesh object, Cube_1, and the hull an earlier
\* decomposition of Cube_1 left
OwnerScene ==
    BaseScene @@
    (5 :> Obj(Cube_1, None, {"Collection"}, 0, -1)) @@
    (6 :> Obj(HullName(Cube_1, 0), 5, {HullCollectionName}, 0, -1))

Backends == {"VHACD", "CoACD"}
Solvers == {"VHACD", "CoACD", "Manual"}

NoProc == [state |-> "none", backend |-> "none", binary |-> "none", code |-> 0]

Init ==
    /\ objects \in {BaseScene, StrayScene, OwnerScene}
    /\ selected = {1}
    /\ active = 1
    /\ mode = "OBJECT"
    /\ collections = {"Collection", HullCollectionName}
    /\ solver \in Solvers
    /\ binaries \in SUBSET Backends
    /\ pc = "idle"
    /\ via = "none"
    /\ root = None
    /\ runs = 0
    /\ tmpdirs = 0
    /\ srcFiles = 0
    /\ hullFile = NoFile
    /\ proc = NoProc
    /\ spawned = 0
    /\ err = "none"
    /\ guard = NoGuard
    /\ scene0 = [objects |-> objects, selected |-> selected, active |-> active,
                 mode |-> mode, tmpdirs |-> 0, srcFiles |-> 0, spawned |-> 0]
    /\ cur = NoRun
    /\ prev = NoRun
    /\ hist = <<>>
    /\ hullObjs = <<>>
    /\ MergeIdle
    /\ CmdIdle
    /\ TmpIdle
    /\ XfIdle
    /\ OpIdle
    /\ DicerIdle


(***************************************************************************)
(* Solver output files: a sequence of lines, each an object-name line      *)
(* ("o <name>") or a vertex/face line.  A segment is its "o" line followed *)
(* by its vertex and face lines.                                           *)
(***************************************************************************)
OLine(name) == [kind |-> "o", arg |-> name]
VLine(n) == [kind |-> "v", arg |-> n]
FLine(n) == [kind |-> "f", arg |-> n]

\* the name the solver itself gives its i-th hull
SolverName(i) == <<"h">> \o Str(i)

\* one segment with n vertex/face lines
Segment(i, n) ==
    <<OLine(SolverName(i))>> \o
    [j \in 1..n |-> IF j < n THEN VLine(j) ELSE FLine(j)]

RECURSIVE MkFile(_, _)
MkFile(layout, i) ==
    IF i > Len(layout) THEN <<>>
    ELSE Segment(i - 1, layout[i]) \o MkFile(layout, i + 1)

\* the body lengths of the segments of the files the solver may write
Layouts ==
    {[i \in 1..k |-> ShortBody] : k \in 0..MaxHulls} \cup
    {[i \in 1..k |-> IF i = 2 THEN LongBody ELSE ShortBody] : k \in 2..MaxHulls}

SolverFiles == {MkFile(l, 1) : l \in Layouts}

\* the (1-based) positions of the "o " lines of a file, in file order
OLines(lines) == {i \in DOMAIN lines : lines[i].kind = "o"}

NumSegments(lines) == IF lines = NoFile THEN 0 ELSE Cardinality(OLines(lines))

(***************************************************************************)
(* ConvexDecompositionBaseOperator                                         *)
(***************************************************************************)
\* get_selected_object without its test of bpy.context.mode
GetSelectedObjectNoModeCheck(m, sel) ==
    IF Cardinality(sel) # 1 THEN <<None, TRUE>>
    ELSE <<CHOOSE o \in sel : TRUE, FALSE>>

\* get_selected_object: <<object, error flag>>
GetSelectedObject(m, sel) ==
    IF m # "OBJECT" THEN <<None, TRUE>>
    ELSE IF Cardinality(sel) # 1 THEN <<None, TRUE>>
    ELSE <<CHOOSE o \in sel : TRUE, FALSE>>

\* remove_stale_hulls selecting nothing: the hulls of earlier runs stay
StaleHullsNotRemoved(objs, r) == {}

\* the objects remove_stale_hulls selects for deletion
StaleHulls(objs, r) ==
    {o \in Ids(objs) : StartsWith(objs[o].name, HullPrefix(objs[r].name))}

\* remove_stale_hulls(root_obj): the scene, selection and active object it
\* leaves, what its guard saved, and the exception its guard raises
RemoveStaleHulls(objs, sel, act, r) ==
    LET saved == GuardEnter(sel, act)
        stale == StaleHulls(objs, r)
        objs1 == DeleteObjects(objs, stale)
        act1  == IF act \in stale THEN None ELSE act
        out   == GuardExit(saved, objs1, act1)
    IN  [objects |-> objs1, sel |-> out.sel, act |-> out.act,
         exc |-> out.exc, saved |-> saved]

\* Blender keeps object names unique: a taken name gets a numeric suffix
NumSuffix(n) == <<".", "0", "0", Digit(n)>>

UniqueName(objs, self, name) ==
    LET taken == {objs[o].name : o \in Ids(objs) \ {self}}
    IN  IF name \notin taken THEN name
        ELSE name \o NumSuffix(CHOOSE n \in 1..9 :
                 /\ (name \o NumSuffix(n)) \notin taken
                 /\ \A m \in 1..(n - 1) : (name \o NumSuffix(m)) \in taken)

\* the loop of rename_hulls over hulls[i..]
RECURSIVE RenameFrom(_, _, _, _)
RenameFrom(objs, hulls, i, parentName) ==
    IF i > Len(hulls) THEN objs
    ELSE RenameFrom(
            [objs EXCEPT ![hulls[i]].name =
                UniqueName(objs, hulls[i], HullName(parentName, i - 1))],
            hulls, i + 1, parentName)

\* hulls = [_ for _ in bpy.data.objects if _.name.startswith(hull_prefix)]
TmpHulls(objs, prefix) ==
    InDataOrder(objs, {o \in Ids(objs) : StartsWith(objs[o].name, prefix)})

\* upsert_collection without the lookup: a collection is made on every call,
\* and the host names it "<name>.001" when the name is taken
UpsertCollectionAlwaysNew(colls, name) ==
    colls \cup {IF name \in colls THEN "convex hulls.001" ELSE name}

\* upsert_collection
UpsertCollection(colls, name) == IF name \in colls THEN colls ELSE colls \cup {name}

(***************************************************************************)
(* ConvexDecompositionRunOperator                                          *)
(***************************************************************************)
\* the rewrite of import_solver_results: enumerate(lines) counts from 0
RewriteNames(lines, prefix) ==
    [i \in DOMAIN lines |->
        IF lines[i].kind = "o"
        THEN OLine(prefix \o Str(i - 1))
        ELSE lines[i]]

\* 0-based index of the segment that starts at line i
SegmentIndex(lines, i) == Cardinality({j \in OLines(lines) : j < i})

\* bpy.ops.wm.obj_import: one new mesh object per "o " line, in file order
RECURSIVE ImportFrom(_, _, _, _)
ImportFrom(objs, lines, todo, run) ==
    IF todo = {} THEN objs
    ELSE LET i  == CHOOSE i \in todo : \A j \in todo : i <= j
             id == FreshIds(Ids(objs), 1)[1]
             o  == Obj(UniqueName(objs, id, lines[i].arg), None, {"Collection"},
                       run, SegmentIndex(lines, i))
         IN  ImportFrom(objs @@ (id :> o), lines, todo \ {i}, run)

ObjImport(objs, lines, run) == ImportFrom(objs, lines, OLines(lines), run)

\* ConvexDecompositionPanel.draw: whether the "Run" button is offered
PanelRunEnabled == solver # "Manual" /\ solver \in binaries

\* execute: the backend (binary and property group) the solver setting selects
Backend(s) == IF s = "VHACD" THEN "VHACD" ELSE "CoACD"

(***************************************************************************)
(* Actions.                                                                *)
(***************************************************************************)
\* positions at which no operator is running
Terminal == {"idle", "done", "failed", "rejected", "cleared"}

Snapshot ==
    [objects |-> objects, selected |-> selected, active |-> active,
     mode |-> mode, tmpdirs |-> tmpdirs, srcFiles |-> srcFiles,
     spawned |-> spawned]

GuardRecord(block, saved, exc) ==
    [block |-> block, sel |-> saved.sel, act |-> saved.act, exc |-> exc]

\* The artist prepares the scene before the first operator is called: selects
\* among the two mesh objects, makes an object active (or none), switches the
\* interaction mode.  Operators are then called one after the other.
UserSelect(S) ==
    /\ pc = "idle"
    /\ S # selected
    /\ selected' = S
    /\ UNCHANGED <<objects, active, mode, collections, solver, binaries, pc,
                   via, root, runs, tmpdirs, srcFiles, hullFile, proc, spawned,
                   err, guard, scene0, cur, prev, hist, hullObjs>>
    /\ UNCHANGED otherVars

UserActivate(a) ==
    /\ pc = "idle"
    /\ a # active
    /\ active' = a
    /\ UNCHANGED <<objects, selected, mode, collections, solver, binaries, pc,
                   via, root, runs, tmpdirs, srcFiles, hullFile, proc, spawned,
                   err, guard, scene0, cur, prev, hist, hullObjs>>
    /\ UNCHANGED otherVars

UserSetMode(m) ==
    /\ pc = "idle"
    /\ m # mode
    /\ mode' = m
    /\ UNCHANGED <<objects, selected, active, collections, solver, binaries, pc,
                   via, root, runs, tmpdirs, srcFiles, hullFile, proc, spawned,
                   err, guard, scene0, cur, prev, hist, hullObjs>>
    /\ UNCHANGED otherVars

\* ConvexDecompositionRunOperator.execute, up to get_selected_object.
\* v = "panel": the Run button of the panel; v = "direct": the registered
\* operator opr.convex_decomposition_run called any other way.
RunStart(v) ==
    /\ pc \in Terminal
    /\ runs < MaxRuns
    /\ v = "panel" => PanelRunEnabled
    /\ LET got == GetSelectedObject(mode, selected)
       IN  /\ root' = got[1]
           /\ cur' = [root |-> got[1], file |-> NoFile]
           /\ IF got[2]
              THEN pc' = "rejected" /\ err' = "precondition"
              ELSE pc' = "remove" /\ err' = "none"
    /\ prev' = IF pc = "done" THEN cur ELSE NoRun
    /\ runs' = runs + 1
    /\ via' = v
    /\ scene0' = Snapshot
    /\ hist' = <<"validate">>
    /\ proc' = NoProc
    /\ guard' = NoGuard
    /\ hullObjs' = <<>>
    /\ UNCHANGED <<objects, selected, active, mode, collections, solver,
                   binaries, tmpdirs, srcFiles, hullFile, spawned>>
    /\ UNCHANGED otherVars

\* execute: self.remove_stale_hulls(root_obj)
DoRemoveStaleHulls ==
    /\ pc = "remove"
    /\ LET r == RemoveStaleHulls(objects, selected, active, root)
       IN  /\ objects' = r.objects
           /\ selected' = r.sel
           /\ active' = r.act
           /\ guard' = GuardRecord("remove_stale_hulls", r.saved, r.exc)
           /\ IF r.exc = "none"
              THEN pc' = "export" /\ err' = err
              ELSE pc' = "failed" /\ err' = r.exc
    /\ hist' = Append(hist, "remove")
    /\ UNCHANGED <<mode, collections, solver, binaries, via, root, runs,
                   tmpdirs, srcFiles, hullFile, proc, spawned, scene0, cur,
                   prev, hullObjs>>
    /\ UNCHANGED otherVars

\* execute: tempfile.mkdtemp and self.export_mesh_for_solver(root_obj, tmp_path).
\* outcome: whether bpy.ops.wm.obj_export writes the file or raises.
DoExportMeshForSolver(outcome) ==
    /\ pc = "export"
    /\ tmpdirs' = tmpdirs + 1
    /\ hullFile' = NoFile
    /\ srcFiles' = IF outcome = "ok" THEN srcFiles + 1 ELSE srcFiles
    /\ LET saved == GuardEnter(selected, active)
           out   == GuardExit(saved, objects, active)
           exc   == IF out.exc # "none" THEN out.exc
                    ELSE IF outcome = "raise" THEN "RuntimeError"
                    ELSE "none"
       IN  /\ selected' = out.sel
           /\ active' = out.act
           /\ guard' = GuardRecord("export_mesh_for_solver", saved, exc)
           /\ IF exc = "none"
              THEN pc' = "solver" /\ err' = err
              ELSE pc' = "failed" /\ err' = exc
    /\ hist' = Append(hist, "export")
    /\ UNCHANGED <<objects, mode, collections, solver, binaries, via, root,
                   runs, proc, spawned, scene0, cur, prev, hullObjs>>
    /\ UNCHANGED otherVars

\* SolverSpawn as it would be with subprocess.Popen: execute goes on to the
\* import while the solver is still running.
SolverSpawnNoWait ==
    /\ pc = "solver"
    /\ Backend(solver) \in binaries
    /\ proc' = [state |-> "running", backend |-> Backend(solver),
                binary |-> Backend(solver), code |-> 0]
    /\ spawned' = spawned + 1
    /\ pc' = "import"
    /\ hullFile' = MkFile(<<ShortBody>>, 1)
    /\ hist' = Append(hist, "solver")
    /\ guard' = NoGuard
    /\ UNCHANGED <<objects, selected, active, mode, collections, solver,
                   binaries, via, root, runs, tmpdirs, srcFiles, err, scene0,
                   cur, prev, hullObjs>>
    /\ UNCHANGED otherVars

\* run_vhacd / run_coacd: subprocess.run starts the solver.  Starting a binary
\* that is empty or does not exist raises OSError.
SolverSpawn ==
    /\ pc = "solver"
    /\ LET b == Backend(solver)
       IN  IF b \in binaries
           THEN /\ proc' = [state |-> "running", backend |-> b, binary |-> b,
                            code |-> 0]
                /\ spawned' = spawned + 1
                /\ pc' = "wait"
                /\ err' = err
           ELSE /\ pc' = "failed"
                /\ err' = "OSError"
                /\ UNCHANGED <<proc, spawned>>
    /\ guard' = NoGuard
    /\ UNCHANGED <<objects, selected, active, mode, collections, solver,
                   binaries, via, root, runs, tmpdirs, srcFiles, hullFile,
                   scene0, cur, prev, hist, hullObjs>>
    /\ UNCHANGED otherVars

\* run_vhacd / run_coacd: subprocess.run returns when the solver has exited,
\* with exit code `code`, having written `f` (or nothing) to its output path.
\* The return code is not looked at.
SolverExit(code, f) ==
    /\ pc = "wait"
    /\ proc' = [proc EXCEPT !.state = "exited", !.code = code]
    /\ hullFile' = f
    /\ cur' = [cur EXCEPT !.file = f]
    /\ pc' = "import"
    /\ hist' = Append(hist, "solver")
    /\ UNCHANGED <<objects, selected, active, mode, collections, solver,
                   binaries, via, root, runs, tmpdirs, srcFiles, spawned, err,
                   guard, scene0, prev, hullObjs>>
    /\ UNCHANGED otherVars

\* execute: self.import_solver_results(hull_path, props.tmp_hull_prefix).
\* outcome: whether bpy.ops.wm.obj_import imports the file or raises.
DoImportSolverResults(outcome) ==
    /\ pc = "import"
    /\ IF hullFile = NoFile
       THEN \* fname.read_text() raises FileNotFoundError
            /\ outcome = "ok"
            /\ pc' = "failed"
            /\ err' = "FileNotFoundError"
            /\ guard' = NoGuard
            /\ UNCHANGED <<objects, selected, active, hullFile>>
       ELSE LET lines == RewriteNames(hullFile, TmpHullPrefix)
                saved == GuardEnter(selected, active)
                objs1 == IF outcome = "ok"
                         THEN ObjImport(objects, lines, runs)
                         ELSE objects
                new   == Ids(objs1) \ Ids(objects)
                \* the importer selects what it imported and makes the last
                \* imported object active
                act1  == IF new = {} THEN active
                         ELSE CHOOSE o \in new :
                                \A p \in new : objs1[p].seg <= objs1[o].seg
                out   == GuardExit(saved, objs1, act1)
                exc   == IF out.exc # "none" THEN out.exc
                         ELSE IF outcome = "raise" THEN "RuntimeError"
                         ELSE "none"
            IN  /\ hullFile' = lines
                /\ objects' = objs1
                /\ selected' = out.sel
                /\ active' = out.act
                /\ guard' = GuardRecord("import_solver_results", saved, exc)
                /\ IF exc = "none"
                   THEN pc' = "rename" /\ err' = err
                   ELSE pc' = "failed" /\ err' = exc
    /\ hist' = Append(hist, "import")
    /\ UNCHANGED <<mode, collections, solver, binaries, via, root, runs,
                   tmpdirs, srcFiles, proc, spawned, scene0, cur, prev,
                   hullObjs>>
    /\ UNCHANGED otherVars

\* execute: hull_objs = self.rename_hulls(props.tmp_hull_prefix, root_obj)
DoRenameHulls ==
    /\ pc = "rename"
    /\ LET hulls == TmpHulls(objects, TmpHullPrefix)
       IN  /\ objects' = RenameFrom(objects, hulls, 1, objects[root].name)
           /\ hullObjs' = hulls
    /\ pc' = "reconcile"
    /\ guard' = NoGuard
    /\ hist' = Append(hist, "rename")
    /\ UNCHANGED <<selected, active, mode, collections, solver, binaries, via,
                   root, runs, tmpdirs, srcFiles, hullFile, proc, spawned, err,
                   scene0, cur, prev>>
    /\ UNCHANGED otherVars

\* execute: the loop over hull_objs (collection, colour, parent), and the return
Reconcile ==
    /\ pc = "reconcile"
    /\ collections' = UpsertCollection(collections, HullCollectionName)
    /\ objects' = [o \in Ids(objects) |->
                     IF o \in Range(hullObjs)
                     THEN [objects[o] EXCEPT !.colls = {HullCollectionName},
                                             !.parent = root]
                     ELSE objects[o]]
    /\ pc' = "done"
    /\ hist' = Append(hist, "reconcile")
    /\ UNCHANGED <<selected, active, mode, solver, binaries, via, root, runs,
                   tmpdirs, srcFiles, hullFile, proc, spawned, err, guard,
                   scene0, cur, prev, hullObjs>>
    /\ UNCHANGED otherVars

\* ConvexDecompositionClearOperator.execute of src/blender2unreal.py, whose
\* SelectionGuard saves and restores the selection only.
Clear ==
    /\ pc \in Terminal
    /\ pc # "cleared"
    /\ LET got == GetSelectedObject(mode, selected)
       IN  /\ root' = got[1]
           /\ IF got[2]
              THEN /\ err' = "precondition"
                   /\ hist' = <<"clear rejected">>
                   /\ UNCHANGED <<objects, selected, active>>
              ELSE LET stale == StaleHulls(objects, got[1])
                   IN  /\ objects' = DeleteObjects(objects, stale)
                       /\ selected' = selected
                       /\ active' = IF active \in stale THEN None ELSE active
                       /\ err' = "none"
                       /\ hist' = <<"clear">>
    /\ pc' = "cleared"
    /\ scene0' = Snapshot
    /\ cur' = NoRun
    /\ prev' = NoRun
    /\ guard' = NoGuard
    /\ UNCHANGED <<mode, collections, solver, binaries, via, runs, tmpdirs,
                   srcFiles, hullFile, proc, spawned, hullObjs>>
    /\ UNCHANGED otherVars

Selectable == {1, 2}

Next ==
    \/ \E S \in SUBSET Selectable : UserSelect(S)
    \/ \E a \in Ids(objects) \cup {None} : UserActivate(a)
    \/ \E m \in {"OBJECT", "EDIT"} : UserSetMode(m)
    \/ \E v \in {"panel", "direct"} : RunStart(v)
    \/ DoRemoveStaleHulls
    \/ \E outcome \in {"ok", "raise"} : DoExportMeshForSolver(outcome)
    \/ SolverSpawn
    \/ \E code \in {0, 1}, f \in SolverFiles \cup {NoFile} : SolverExit(code, f)
    \/ \E outcome \in {"ok", "raise"} : DoImportSolverResults(outcome)
    \/ DoRenameHulls
    \/ Reconcile
    \/ Clear

Spec == Init /\ [][Next]_vars

\* A scene before the first decomposition: the two mesh objects, no hull and
\* no hull collection.
FreshScene ==
    (1 :> Obj(Cube, None, {"Collection"}, 0, -1)) @@
    (2 :> Obj(CubeExtra, None, {"Collection"}, 0, -1))

FreshInit ==
    /\ objects = FreshScene
    /\ selected = {1}
    /\ active = 1
    /\ mode = "OBJECT"
    /\ collections = {"Collection"}
    /\ solver \in Solvers
    /\ binaries = Backends
    /\ pc = "idle"
    /\ via = "none"
    /\ root = None
    /\ runs = 0
    /\ tmpdirs = 0
    /\ srcFiles = 0
    /\ hullFile = NoFile
    /\ proc = NoProc
    /\ spawned = 0
    /\ err = "none"
    /\ guard = NoGuard
    /\ scene0 = [objects |-> objects, selected |-> selected, active |-> active,
                 mode |-> mode, tmpdirs |-> 0, srcFiles |-> 0, spawned |-> 0]
    /\ cur = NoRun
    /\ prev = NoRun
    /\ hist = <<>>
    /\ hullObjs = <<>>
    /\ MergeIdle
    /\ CmdIdle
    /\ TmpIdle
    /\ XfIdle
    /\ OpIdle
    /\ DicerIdle

\* the operators of Spec, started in a scene without any hull
FreshSpec == FreshInit /\ [][Next]_vars

(***************************************************************************)
(* merge_obj_files of the revision src/mouse_position.py, whose solver     *)
(* writes one OBJ file per hull.  A file is a sequence of lines; a vertex  *)
(* line carries the vertex it declares, a face line the sequence of its    *)
(* index tokens.  A token <<n>> is the decimal integer n, a token <<n, t>> *)
(* is the vertex/texture reference "n/t", which int() does not parse.      *)
(***************************************************************************)
CommentLine == [kind |-> "#", arg |-> <<>>]

Tok(n) == <<n>>
SlashTok(n) == <<n, n>>

\* the vertex and face lines of a hull file: vc vertices, then the faces.
\* Vertex j of the file at position i of out_files is the vertex <<i, j>>.
Body(i, vc, faces) ==
    [j \in 1..vc |-> VLine(<<i, j>>)] \o [k \in DOMAIN faces |-> FLine(faces[k])]

\* the files a solver may leave, before they are given their position:
\* [vc, faces, head]; head is the line the body is preceded by, if any.
\* A file has no face or one face, over two of its vertices or over the
\* index vc + 1, which names none of them.
FileShapes ==
    UNION {{[vc |-> n, faces |-> fs, head |-> "none"] :
               fs \in {<<>>} \cup
                      {<< <<Tok(a), Tok(IF a <= n THEN n + 1 - a ELSE a)>> >> :
                          a \in 1..(n + 1)}} :
           n \in 0..MaxVerts}
    \cup {[vc |-> MaxVerts,
           faces |-> << <<Tok(1), Tok(MaxVerts)>>, <<Tok(MaxVerts), Tok(1)>> >>,
           head |-> "none"],
          [vc |-> 1, faces |-> << <<Tok(1), Tok(1)>> >>, head |-> "o"],
          [vc |-> 1, faces |-> << <<Tok(1), Tok(1)>> >>, head |-> "#"],
          [vc |-> 1, faces |-> << <<SlashTok(1), SlashTok(1)>> >>,
           head |-> "none"]}

\* the file of shape sh at position i of out_files
HullFileOf(sh, i) ==
    (CASE sh.head = "o" -> <<OLine(SolverName(i))>>
       [] sh.head = "#" -> <<CommentLine>>
       [] OTHER -> <<>>)
    \o Body(i, sh.vc, sh.faces)

\* f"o {prefix}{i}": i counts the files from 1 instead of from 0
MergedNameOneBased(prefix, i) == prefix \o Str(i + 1)

\* f"o {prefix}{i}"
MergedName(prefix, i) == prefix \o Str(i)

\* the index left as it is in the source file
FaceShiftNone(idx, ofs) == idx

\* str(_ + vert_ofs)
FaceShift(idx, ofs) == idx + ofs

\* int(_) succeeds on every token of the face line
IntTokens(face) == \A k \in DOMAIN face : Len(face[k]) = 1

\* the inner loop over the lines of one file, from line k on, with the data
\* appended so far and the vertices counted so far
RECURSIVE MergeLines(_, _, _, _, _)
MergeLines(lines, k, ofs, data, cnt) ==
    IF k > Len(lines) THEN [data |-> data, cnt |-> cnt, exc |-> "none"]
    ELSE LET line == lines[k]
         IN  IF line.kind = "v"
             THEN MergeLines(lines, k + 1, ofs, Append(data, line), cnt + 1)
             ELSE IF line.kind = "f"
             THEN IF IntTokens(line.arg)
                  THEN MergeLines(lines, k + 1, ofs,
                          Append(data, FLine([j \in DOMAIN line.arg |->
                                     Tok(FaceShift(line.arg[j][1], ofs))])),
                          cnt)
                  ELSE [data |-> data, cnt |-> cnt, exc |-> "ValueError"]
             ELSE \* self.report(ERROR, "Unknown OBJ line entry"); assert False
                  [data |-> data, cnt |-> cnt, exc |-> "AssertionError"]

\* the outer loop over out_files, from file i (0-based) on
RECURSIVE MergeFrom(_, _, _, _, _)
MergeFrom(prefix, files, i, ofs, data) ==
    IF i >= Len(files) THEN [data |-> data, exc |-> "none"]
    ELSE LET r == MergeLines(files[i + 1], 1, ofs,
                             Append(data, OLine(MergedName(prefix, i))), 0)
         IN  IF r.exc # "none" THEN [data |-> r.data, exc |-> r.exc]
             ELSE MergeFrom(prefix, files, i + 1, ofs + r.cnt, r.data)

\* merge_obj_files(prefix, out_files): the exception it raises or the
\* document it writes to merged.obj
MergeObjFiles(prefix, files) ==
    LET r == MergeFrom(prefix, files, 0, 0, <<>>)
    IN  IF r.exc = "none"
        THEN [state |-> "returned", exc |-> "none", written |-> TRUE,
              doc |-> r.data]
        ELSE [state |-> "raised", exc |-> r.exc, written |-> FALSE,
              doc |-> <<>>]

\* No operator of src/convex_decomposition.py is called: the scene stays as
\* the artist left it.
RunAtRest ==
    /\ objects = BaseScene
    /\ selected = {1}
    /\ active = 1
    /\ mode = "OBJECT"
    /\ collections = {"Collection", HullCollectionName}
    /\ solver = "VHACD"
    /\ binaries = Backends
    /\ pc = "idle"
    /\ via = "none"
    /\ root = None
    /\ runs = 0
    /\ tmpdirs = 0
    /\ srcFiles = 0
    /\ hullFile = NoFile
    /\ proc = NoProc
    /\ spawned = 0
    /\ err = "none"
    /\ guard = NoGuard
    /\ scene0 = [objects |-> objects, selected |-> selected, active |-> active,
                 mode |-> mode, tmpdirs |-> 0, srcFiles |-> 0, spawned |-> 0]
    /\ cur = NoRun
    /\ prev = NoRun
    /\ hist = <<>>
    /\ hullObjs = <<>>

\* the lists of up to MaxParts files the solver may have left
FileLists ==
    UNION {{[i \in 1..n |-> HullFileOf(shapes[i], i - 1)] :
               shapes \in [1..n -> FileShapes]} : n \in 0..MaxParts}

MergeInit ==
    /\ RunAtRest
    /\ outFiles \in FileLists
    /\ merged = NoMerge
    /\ CmdIdle
    /\ TmpIdle
    /\ XfIdle
    /\ OpIdle
    /\ DicerIdle

\* run_vhacd: merged_obj_file = self.merge_obj_files(hull_prefix, out_files)
CallMergeObjFiles ==
    /\ merged = NoMerge
    /\ merged' = MergeObjFiles(TmpHullPrefix, outFiles)
    /\ UNCHANGED <<outFiles, runVars, cmdVars, tmpVars, xfVars,
                   opVars, dicerVars>>

MergeNext == CallMergeObjFiles

MergeSpec == MergeInit /\ [][MergeNext]_vars

(***************************************************************************)
(* The command lines of run_vhacd and run_coacd, in the revisions          *)
(* src/convex_decomposition.py and src/blender2unreal.py.  A command is a  *)
(* sequence of tokens [kind, text]; text is a sequence of strings: the one *)
(* literal of a flag or word, the characters of a formatted number.  A     *)
(* float is held as its number of thousandths.                             *)
(***************************************************************************)
Flag(t) == [kind |-> "flag", text |-> <<t>>]
Word(t) == [kind |-> "word", text |-> <<t>>]
Num(cs) == [kind |-> "num", text |-> cs]
File(t) == [kind |-> "path", text |-> <<t>>]

\* the digits of str() of a float after the point, for a thousandths fraction
FracDigits(f) ==
    IF f % 100 = 0 THEN <<Digit(f \div 100)>>
    ELSE IF f % 10 = 0 THEN <<Digit(f \div 100), Digit((f \div 10) % 10)>>
    ELSE <<Digit(f \div 100), Digit((f \div 10) % 10), Digit(f % 10)>>

\* str(x) of the float x = t / 1000
StrFloat(t) == Str(t \div 1000) \o <<".">> \o FracDigits(t % 1000)

\* "true" if b else "false"
TrueFalse(b) == IF b THEN "true" ELSE "false"

\* the values a property group can hold: the default and a limit of each field
VhacdProps ==
    [i_voxel_resolution : {100000, 1},
     f_volume_error_percent : {10000, 1},
     i_max_recursion_depth : {10, 1},
     i_max_hull_vert_count : {64, 1},
     i_min_edge_length : {2, 1},
     b_shrinkwrap : BOOLEAN,
     b_split_location : BOOLEAN,
     e_fill_mode : {"flood", "surface", "raycast"}]

CoacdNumbers ==
    [f_threshold : {50, 10},
     i_mcts_iterations : {100, 60},
     i_mcts_depth : {3, 2},
     i_mcts_node : {20, 10},
     i_prep_resolution : {10000, 1000},
     i_resolution : {2000, 1000},
     f_k : {300, 0}]

\* ConvexDecompositionPropertiesCoACD of src/convex_decomposition.py
CoacdProps ==
    {n @@ b : n \in CoacdNumbers,
              b \in [b_no_preprocess : BOOLEAN, b_merge : BOOLEAN,
                     b_pca : BOOLEAN]}

\* ConvexDecompositionPropertiesCoACD of src/blender2unreal.py
CoacdPropsOld ==
    {n @@ b : n \in CoacdNumbers,
              b \in [b_no_preprocess : BOOLEAN, b_disable_merge : BOOLEAN,
                     b_pca : BOOLEAN]}

\* run_vhacd with "-d" given the hull vertex count as well
VhacdCmdCopyPaste(p) ==
    <<File("binary"), File("src.obj"),
      Flag("-r"), Num(Str(p.i_voxel_resolution)),
      Flag("-d"), Num(Str(p.i_max_hull_vert_count)),
      Flag("-v"), Num(Str(p.i_max_hull_vert_count)),
      Flag("-l"), Num(Str(p.i_min_edge_length)),
      Flag("-e"), Num(StrFloat(p.f_volume_error_percent)),
      Flag("-s"), Word(TrueFalse(p.b_shrinkwrap)),
      Flag("-p"), Word(TrueFalse(p.b_split_location)),
      Flag("-a"), Word("true"),
      Flag("-g"), Word("true"),
      Flag("-f"), Word(p.e_fill_mode)>>

\* run_vhacd: cmd (the same in both revisions)
VhacdCmd(p) ==
    <<File("binary"), File("src.obj"),
      Flag("-r"), Num(Str(p.i_voxel_resolution)),
      Flag("-d"), Num(Str(p.i_max_recursion_depth)),
      Flag("-v"), Num(Str(p.i_max_hull_vert_count)),
      Flag("-l"), Num(Str(p.i_min_edge_length)),
      Flag("-e"), Num(StrFloat(p.f_volume_error_percent)),
      Flag("-s"), Word(TrueFalse(p.b_shrinkwrap)),
      Flag("-p"), Word(TrueFalse(p.b_split_location)),
      Flag("-a"), Word("true"),
      Flag("-g"), Word("true"),
      Flag("-f"), Word(p.e_fill_mode)>>

\* the part of the CoACD command that both revisions build alike
CoacdCmdHead(p) ==
    <<File("binary"),
      Flag("--input"), File("src.obj"),
      Flag("--output"), File("hulls.obj"),
      Flag("--threshold"), Num(StrFloat(p.f_threshold)),
      Flag("-k"), Num(StrFloat(p.f_k)),
      Flag("--mcts-iteration"), Num(Str(p.i_mcts_iterations)),
      Flag("--mcts-depth"), Num(Str(p.i_mcts_depth)),
      Flag("--mcts-node"), Num(Str(p.i_mcts_node)),
      Flag("--prep-resolution"), Num(Str(p.i_prep_resolution)),
      Flag("--resolution"), Num(Str(p.i_resolution))>>

\* cmd.append(flag) if cond else None
AppendIf(c, cond, flag) == IF cond THEN Append(c, Flag(flag)) ELSE c

\* run_coacd of src/convex_decomposition.py: cmd
CoacdCmd(p) ==
    LET preparg == IF p.b_no_preprocess THEN "off" ELSE "auto"
        c0 == CoacdCmdHead(p) \o <<Flag("--preprocess-mode"), Word(preparg)>>
        c1 == AppendIf(c0, p.b_pca, "--pca")
    IN  AppendIf(c1, ~p.b_merge, "--no-merge")

\* run_coacd of src/blender2unreal.py: args
CoacdCmdOld(p) ==
    LET c1 == AppendIf(CoacdCmdHead(p), p.b_pca, "--pca")
        c2 == AppendIf(c1, p.b_no_preprocess, "--no-prerpocess")
    IN  AppendIf(c2, p.b_disable_merge, "--no-merge")

Revisions == {"convex_decomposition", "blender2unreal"}

\* Paths are File tokens whose text lists the components below the temporary
\* directory that execute made: obj_file is <tmp_path>/src.obj.
ObjFile == File("src.obj")

\* Path.parent and the / operator of pathlib
Parent(f) == [kind |-> "path", text |-> SubSeq(f.text, 1, Len(f.text) - 1)]
Join(d, name) == [kind |-> "path", text |-> Append(d.text, name)]

\* run_vhacd: fout
VhacdResult(objFile) == Join(Parent(objFile), "decomp.obj")

\* run_coacd returning the name run_vhacd returns
CoacdResultAsVhacd(objFile) == Join(Parent(objFile), "decomp.obj")

\* run_coacd: result_file
CoacdResult(objFile) == Join(Parent(objFile), "hulls.obj")

\* subprocess.run(cmd, cwd=obj_file.parent) and the return statement
Launch(c, objFile) ==
    [cwd |-> Parent(objFile),
     ret |-> IF c.backend = "VHACD" THEN VhacdResult(objFile)
             ELSE CoacdResult(objFile),
     read |-> {}]

\* the property groups the method c can be given
PropsOf(c) ==
    IF c.backend = "VHACD" THEN VhacdProps
    ELSE IF c.rev = "blender2unreal" THEN CoacdPropsOld
    ELSE CoacdProps

\* the command the method c builds from the property group p
BuildCmd(c, p) ==
    IF c.backend = "VHACD" THEN VhacdCmd(p)
    ELSE IF c.rev = "blender2unreal" THEN CoacdCmdOld(p)
    ELSE CoacdCmd(p)

CmdInit ==
    /\ RunAtRest
    /\ MergeIdle
    /\ TmpIdle
    /\ XfIdle
    /\ OpIdle
    /\ DicerIdle
    /\ callee \in [rev : Revisions, backend : Backends]
    /\ props \in PropsOf(callee)
    /\ cmd = NoCmd
    /\ launch = NoLaunch

\* run_vhacd / run_coacd
BuildCommand ==
    /\ cmd = NoCmd
    /\ cmd' = BuildCmd(callee, props)
    /\ launch' = Launch(callee, ObjFile)
    /\ UNCHANGED <<callee, props, runVars, mergeVars, tmpVars, xfVars,
                   opVars, dicerVars>>

\* execute: self.import_solver_results(hull_path, props.tmp_hull_prefix), which
\* reads (and rewrites) fname and hands it to the importer
ImportSolverResults ==
    /\ cmd # NoCmd
    /\ launch.read = {}
    /\ launch' = [launch EXCEPT !.read = {launch.ret}]
    /\ UNCHANGED <<callee, props, cmd, runVars, mergeVars, tmpVars, xfVars,
                   opVars, dicerVars>>

CmdNext == BuildCommand \/ ImportSolverResults

CmdSpec == CmdInit /\ [][CmdNext]_vars

(***************************************************************************)
(* The temporary files of the revision src/mouse_position.py: every        *)
(* execute works in the directory /tmp/foo.  save_temporary_obj writes     *)
(* src.obj there, the solver leaves one file per hull next to it, and      *)
(* run_vhacd merges and imports whatever matches src*.obj.                 *)
(***************************************************************************)
\* the file the solver writes for hull k in execute number r, with or
\* without a line that names the hull
SolverPart(r, k, named) ==
    (IF named THEN <<OLine(SolverName(k))>> ELSE <<>>)
    \o <<VLine(<<r, k>>), FLine(<<Tok(1), Tok(1)>>)>>

\* the file save_temporary_obj exports in execute number r
SourceFile(r) == <<VLine(<<r, 0>>)>>

\* the orders in which Path.glob may list n files
GlobOrders(n) == {f \in [1..n -> 1..n] : \A i, j \in 1..n : f[i] = f[j] => i = j}

TmpInit ==
    /\ RunAtRest
    /\ MergeIdle
    /\ CmdIdle
    /\ TmpIdle
    /\ XfIdle
    /\ OpIdle
    /\ DicerIdle

\* execute up to save_temporary_obj: mkdir(exist_ok=True) and the export
SaveTemporaryObj ==
    /\ opc \in {"idle", "imported", "failed"}
    /\ oruns < MaxRuns
    /\ oruns' = oruns + 1
    /\ fooDir' = [fooDir EXCEPT !.src = SourceFile(oruns + 1)]
    /\ opc' = "saved"
    /\ UNCHANGED <<imported, mergeVars, runVars, cmdVars, xfVars,
                   opVars, dicerVars>>

\* run_vhacd: subprocess.run(["vhacd", ...]) returns, the solver having
\* written the files of its n hulls over those of the same names
VhacdWrites(n, named) ==
    /\ opc = "saved"
    /\ fooDir' = [fooDir EXCEPT !.parts =
                     [k \in 1..(IF n > Len(fooDir.parts) THEN n
                                ELSE Len(fooDir.parts)) |->
                         IF k <= n THEN SolverPart(oruns, k, named)
                         ELSE fooDir.parts[k]]]
    /\ opc' = "solved"
    /\ UNCHANGED <<oruns, imported, mergeVars, runVars, cmdVars, xfVars,
                   opVars, dicerVars>>

\* run_vhacd after the solver: unlink src.obj, glob, merge_obj_files, import
RunVhacdImport(order) ==
    /\ opc = "solved"
    /\ LET files == [i \in DOMAIN order |-> fooDir.parts[order[i]]]
           m     == MergeObjFiles(TmpHullPrefix, files)
       IN  /\ outFiles' = files
           /\ merged' = m
           /\ IF m.exc = "none"
              THEN /\ fooDir' = [fooDir EXCEPT !.src = NoFile, !.merged = m.doc]
                   /\ imported' = m.doc
                   /\ opc' = "imported"
              ELSE /\ fooDir' = [fooDir EXCEPT !.src = NoFile]
                   /\ imported' = imported
                   /\ opc' = "failed"
    /\ UNCHANGED <<oruns, runVars, cmdVars, xfVars,
                   opVars, dicerVars>>

TmpNext ==
    \/ SaveTemporaryObj
    \/ \E n \in 0..MaxHulls, named \in BOOLEAN : VhacdWrites(n, named)
    \/ \E order \in GlobOrders(Len(fooDir.parts)) : RunVhacdImport(order)

TmpSpec == TmpInit /\ [][TmpNext]_vars

(***************************************************************************)
(* The re-parent step of execute.  A transform is an affine map of the     *)
(* plane with rational entries, [a, b, c, d, x, y, n]: the linear part     *)
(* (a b; c d) / n and the translation (x, y) / n, n # 0.  The host places  *)
(* a child at parent.matrix_world @ matrix_parent_inverse @ matrix_basis.  *)
(***************************************************************************)
Mat(a, b, c, d, x, y, n) ==
    [a |-> a, b |-> b, c |-> c, d |-> d, x |-> x, y |-> y, n |-> n]

Identity == Mat(1, 0, 0, 1, 0, 0, 1)

\* M @ N
Mul(M, N) ==
    Mat(M.a * N.a + M.b * N.c, M.a * N.b + M.b * N.d,
        M.c * N.a + M.d * N.c, M.c * N.b + M.d * N.d,
        M.a * N.x + M.b * N.y + M.x * N.n,
        M.c * N.x + M.d * N.y + M.y * N.n,
        M.n * N.n)

\* the two transforms are the same map
Same(M, N) ==
    /\ M.a * N.n = N.a * M.n
    /\ M.b * N.n = N.b * M.n
    /\ M.c * N.n = N.c * M.n
    /\ M.d * N.n = N.d * M.n
    /\ M.x * N.n = N.x * M.n
    /\ M.y * N.n = N.y * M.n

Det(M) == M.a * M.d - M.b * M.c

\* Matrix.inverted() raises ValueError for a matrix without inverse
Invertible(M) == Det(M) # 0

\* matrix_parent_inverse left as it is
NotInverted(M) == Identity

\* Matrix.inverted() of an invertible matrix
Inverted(M) ==
    Mat(M.n * M.d, -(M.n * M.b), -(M.n * M.c), M.n * M.a,
        M.b * M.y - M.d * M.x, M.c * M.x - M.a * M.y,
        Det(M))

\* obj.matrix_world of hull h under a parent with world matrix pw
World(h, pw) ==
    IF h.parent = None THEN h.basis ELSE Mul(pw, Mul(h.pinv, h.basis))

\* world matrices of the source object: rotated, mirrored, sheared, scaled,
\* flattened (scale 0 on an axis), moved
RootWorlds ==
    {Mat(a, b, c, d, x, y, 1) : a, b, c, d \in {-1, 0, 1, 2}, x, y \in {0, 1}}

\* transforms of a hull as the importer leaves it
HullBases == {Identity, Mat(0, -1, 1, 0, 0, 0, 1), Mat(1, 0, 0, 1, 1, -1, 1)}

NoHull == [basis |-> Identity, parent |-> None, pinv |-> Identity]

XfInit ==
    /\ RunAtRest
    /\ MergeIdle
    /\ CmdIdle
    /\ TmpIdle
    /\ OpIdle
    /\ DicerIdle
    /\ rootWorld \in RootWorlds
    /\ hull = NoHull
    /\ world0 = Identity
    /\ xpc = "idle"

\* bpy.ops.wm.obj_import: the hull enters the scene without a parent
ImportHull(basis) ==
    /\ xpc = "idle"
    /\ hull' = [basis |-> basis, parent |-> None, pinv |-> Identity]
    /\ world0' = basis
    /\ xpc' = "imported"
    /\ UNCHANGED <<rootWorld, runVars, mergeVars, cmdVars, tmpVars,
                   opVars, dicerVars>>

\* execute: obj.parent = root_obj;
\*          obj.matrix_parent_inverse = root_obj.matrix_world.inverted()
Reparent ==
    /\ xpc = "imported"
    /\ IF Invertible(rootWorld)
       THEN /\ hull' = [hull EXCEPT !.parent = 1, !.pinv = Inverted(rootWorld)]
            /\ xpc' = "parented"
       ELSE /\ hull' = [hull EXCEPT !.parent = 1]
            /\ xpc' = "ValueError"
    /\ UNCHANGED <<rootWorld, world0, runVars, mergeVars, cmdVars, tmpVars,
                   opVars, dicerVars>>

XfNext ==
    \/ \E basis \in HullBases : ImportHull(basis)
    \/ Reparent

XfSpec == XfInit /\ [][XfNext]_vars

(***************************************************************************)
(* The Select, export and split-by-face operators (OpsSpec).  Each execute *)
(* is one step on the scene of Spec: objects, selected, active, mode and   *)
(* collections, with the location of every object beside them.            *)
(***************************************************************************)
\* the other variables of Spec, which these operators never touch
runRest == <<solver, binaries, pc, via, root, runs, tmpdirs, srcFiles,
             hullFile, proc, spawned, err, guard, scene0, cur, prev, hist,
             hullObjs>>

notOpVars == <<mergeVars, cmdVars, tmpVars, xfVars, dicerVars>>

MaxOps == 2       \* operator calls in one behaviour

\* return {'FINISHED'} / return {'CANCELLED'}
StatusSet(s) == [kind |-> "set", val |-> s]
\* return None, True
NoneTrue == [kind |-> "tuple", val |-> "None, True"]
\* execute left by an exception
Raised(exc) == [kind |-> "raise", val |-> exc]

\* Cube with a child that is no hull (CubeExtra), a hull of its own and a
\* hull of that child
OpsScene ==
    (1 :> Obj(Cube, None, {"Collection"}, 0, -1)) @@
    (2 :> Obj(CubeExtra, 1, {"Collection"}, 0, -1)) @@
    (3 :> Obj(HullName(Cube, 0), 1, {HullCollectionName}, 0, -1)) @@
    (4 :> Obj(HullName(CubeExtra, 0), 2, {HullCollectionName}, 0, -1))

Call(op) ==
    [op |-> op, objects |-> objects, selected |-> selected, active |-> active,
     mode |-> mode, location |-> location, collections |-> collections]

OpsInit ==
    /\ objects = OpsScene
    /\ selected = {1}
    /\ active = 1
    /\ mode = "OBJECT"
    /\ collections = {"Collection", HullCollectionName}
    /\ solver = "VHACD"
    /\ binaries = Backends
    /\ pc = "idle"
    /\ via = "none"
    /\ root = None
    /\ runs = 0
    /\ tmpdirs = 0
    /\ srcFiles = 0
    /\ hullFile = NoFile
    /\ proc = NoProc
    /\ spawned = 0
    /\ err = "none"
    /\ guard = NoGuard
    /\ scene0 = [objects |-> objects, selected |-> selected, active |-> active,
                 mode |-> mode, tmpdirs |-> 0, srcFiles |-> 0, spawned |-> 0]
    /\ cur = NoRun
    /\ prev = NoRun
    /\ hist = <<>>
    /\ hullObjs = <<>>
    /\ MergeIdle
    /\ CmdIdle
    /\ TmpIdle
    /\ XfIdle
    /\ DicerIdle
    /\ ret = NoRet
    /\ location \in {[o \in Ids(OpsScene) |-> IF o \in S THEN 1 ELSE 0] :
                        S \in SUBSET {1, 2}}
    /\ exported = NoExport
    /\ before = NoCall
    /\ ops = 0

\* parent.children for the parents in S
Children(objs, S) == {o \in Ids(objs) : objs[o].parent \in S}

\* the loop of the Select operator selecting the children in place of
\* their parents
SelectChildrenOnly(objs, sel) == Children(objs, sel)

\* the loop of the Select operator: child.select_set(True)
SelectChildren(objs, sel) == sel \cup Children(objs, sel)

\* ConvexDecompositionClearOperator.execute of src/convex_decomposition.py
\* (bl_idname opr.convex_decomposition_select)
Select ==
    /\ ops < MaxOps
    /\ before' = Call("select")
    /\ ops' = ops + 1
    /\ IF mode # "OBJECT"
       THEN /\ ret' = NoneTrue
            /\ UNCHANGED selected
       ELSE /\ selected' = SelectChildren(objects, selected)
            /\ ret' = StatusSet("FINISHED")
    /\ UNCHANGED <<objects, active, mode, collections, location, exported>>
    /\ UNCHANGED <<runRest, notOpVars>>

\* every child of the exported object, whatever its name
AllChildren(objs, p) == Children(objs, {p})

\* the children unreal_export / godot_export select
UcxChildren(objs, p) ==
    {o \in Children(objs, {p}) : StartsWith(objs[o].name, UCX)}

\* unreal_export / godot_export of the object o when the exporter ends with
\* outcome: what the exporter was given, and the location, selection, active
\* object and exception the function leaves
ExportObj(objs, sel, act, loc, o, outcome) ==
    LET moved == [loc EXCEPT ![o] = 0]
        saved == GuardEnter(sel, act)
        given == sel \cup UcxChildren(objs, o)
        out   == GuardExit(saved, objs, act)
        exc   == IF out.exc # "none" THEN out.exc
                 ELSE IF outcome = "raise" THEN "RuntimeError"
                 ELSE "none"
    IN  [given |-> [objs |-> given, at |-> <<moved[o]>>],
         loc |-> IF exc = "none" THEN [moved EXCEPT ![o] = loc[o]] ELSE moved,
         sel |-> out.sel, act |-> out.act, exc |-> exc]

\* ConvexDecompositionUnrealExportOperator.execute (format "fbx") and
\* ConvexDecompositionGodotExportOperator.execute (format "glb")
Export(format, outcome) ==
    /\ ops < MaxOps
    /\ before' = Call(format)
    /\ ops' = ops + 1
    /\ LET got == GetSelectedObject(mode, selected)
       IN  IF got[2]
           THEN /\ ret' = StatusSet("FINISHED")
                /\ UNCHANGED <<selected, active, location, exported>>
           ELSE LET r == ExportObj(objects, selected, active, location,
                                   got[1], outcome)
                IN  /\ exported' = r.given
                    /\ location' = r.loc
                    /\ selected' = r.sel
                    /\ active' = r.act
                    /\ ret' = IF r.exc = "none" THEN StatusSet("FINISHED")
                              ELSE Raised(r.exc)
    /\ UNCHANGED <<objects, mode, collections>>
    /\ UNCHANGED <<runRest, notOpVars>>

\* s up to the first c
RECURSIVE UpTo(_, _)
UpTo(s, c) ==
    IF s = <<>> \/ Head(s) = c THEN <<>> ELSE <<Head(s)>> \o UpTo(Tail(s), c)

\* original_name.split("_")[1] of a name that holds a "_"
SecondField(name) ==
    UpTo(SubSeq(name, Len(UpTo(name, "_")) + 2, Len(name)), "_")

\* split_mesh_by_face with one face selected, and the rest of execute: the
\* two copies of obj, cut, renamed, grouped and parented
SplitObjects(objs, obj) ==
    LET new    == FreshIds(Ids(objs), 2)
        isPart == StartsWith(objs[obj].name, UCX)
        parentObj  == IF isPart THEN objs[obj].parent ELSE obj
        parentName == IF ~isPart THEN objs[obj].name
                      ELSE IF parentObj # None THEN objs[parentObj].name
                      ELSE SecondField(objs[obj].name)
        \* obj.copy(), linked to context.collection
        objs1 == objs @@ (new[1] :> Obj(UniqueName(objs, new[1], objs[obj].name),
                                       objs[obj].parent, {"Collection"}, 0, -1))
        objs2 == objs1 @@ (new[2] :> Obj(UniqueName(objs1, new[2], objs[obj].name),
                                        objs[obj].parent, {"Collection"}, 0, -1))
        \* bpy.data.objects.remove(obj, do_unlink=True)
        objs3 == IF isPart THEN DeleteObjects(objs2, {obj}) ELSE objs2
        \* new_obj.name = f"UCX_{parent_name}"
        objs4 == [objs3 EXCEPT ![new[1]].name =
                     UniqueName(objs3, new[1], UCX \o parentName)]
        objs5 == [objs4 EXCEPT ![new[2]].name =
                     UniqueName(objs4, new[2], UCX \o parentName)]
    IN  [objects |->
            [o \in Ids(objs5) |->
                IF o \in Range(new)
                THEN [objs5[o] EXCEPT
                         !.colls = {HullCollectionName},
                         !.parent = IF parentObj # None THEN parentObj ELSE @]
                ELSE objs5[o]],
         new |-> new,
         removed |-> IF isPart THEN {obj} ELSE {}]

\* ConvexDecompositionSplitByFaceOperator.execute with faces faces of the
\* active object selected in edit mode
SplitByFace(faces) ==
    /\ ops < MaxOps
    /\ before' = Call("split")
    /\ ops' = ops + 1
    /\ IF active = None \/ faces # 1
       THEN \* no active object; or ValueError, after mode_set(original_mode)
            /\ ret' = StatusSet("CANCELLED")
            /\ UNCHANGED <<objects, selected, active, mode, collections,
                           location>>
       ELSE LET r == SplitObjects(objects, active)
            IN  /\ objects' = r.objects
                \* primitive_cube_add leaves the cube the only selected
                \* object, and the cube is removed
                /\ selected' = {}
                /\ active' = r.new[2]
                /\ mode' = "OBJECT"
                /\ collections' = UpsertCollection(collections, HullCollectionName)
                /\ location' = [o \in Ids(r.objects) |->
                                   IF o \in Range(r.new) THEN location[active]
                                   ELSE location[o]]
                /\ ret' = StatusSet("FINISHED")
    /\ UNCHANGED exported
    /\ UNCHANGED <<runRest, notOpVars>>

OpsNext ==
    \/ ops = 0 /\ \E S \in SUBSET Selectable : UserSelect(S)
    \/ ops = 0 /\ \E a \in Ids(objects) \cup {None} : UserActivate(a)
    \/ ops = 0 /\ \E m \in {"OBJECT", "EDIT"} : UserSetMode(m)
    \/ Select
    \/ \E format \in {"fbx", "glb"}, outcome \in {"ok", "raise"} :
           Export(format, outcome)
    \/ \E faces \in 0..2 : SplitByFace(faces)

OpsSpec == OpsInit /\ [][OpsNext]_vars

(***************************************************************************)
(* src/dicer.py (DicerSpec): main on a scene, with an offset list of       *)
(* dicer.n values.  One step is one pass of the loop of                    *)
(* slice_obj_with_planes, the return of one of its calls together with the *)
(* remove_obj that follows it, or one pass of the renaming loop.           *)
(***************************************************************************)
MaxOffsets == 4   \* values in the offset list

Icosphere == <<"I", "c", "o", "s", "p", "h", "e", "r", "e">>
SliceZero == <<"s", "l", "i", "c", "e", "-", "0">>

\* f"slice-{i}" counted from one
SliceNameOneBased(i) == <<"s", "l", "i", "c", "e", "-">> \o Str(i + 1)

\* f"slice-{i}"
SliceName(i) == <<"s", "l", "i", "c", "e", "-">> \o Str(i)

\* the name the host gives a duplicate: the stem with the first free
\* three-digit suffix
DupName(objs, stem) ==
    LET Sfx(k) == <<".", Digit(k \div 100), Digit((k \div 10) % 10),
                    Digit(k % 10)>>
        taken == {objs[o].name : o \in Ids(objs)}
        k == CHOOSE j \in 1..(Cardinality(Ids(objs)) + 1) :
                 /\ (stem \o Sfx(j)) \notin taken
                 /\ \A i \in 1..(j - 1) : (stem \o Sfx(i)) \in taken
    IN  stem \o Sfx(k)

\* a scene main may be started on: a mesh and an object left by an earlier
\* run of the script
DicerScene ==
    (1 :> Obj(Cube, None, {"Collection"}, 0, -1)) @@
    (2 :> Obj(SliceZero, None, {"Collection"}, 0, -1))

DicerInit ==
    /\ objects = DicerScene
    /\ selected \in {{}, {1}}
    /\ active = 1
    /\ mode \in {"OBJECT", "EDIT"}
    /\ collections = {"Collection"}
    /\ solver = "VHACD"
    /\ binaries = Backends
    /\ pc = "idle"
    /\ via = "none"
    /\ root = None
    /\ runs = 0
    /\ tmpdirs = 0
    /\ srcFiles = 0
    /\ hullFile = NoFile
    /\ proc = NoProc
    /\ spawned = 0
    /\ err = "none"
    /\ guard = NoGuard
    /\ scene0 = [objects |-> objects, selected |-> selected, active |-> active,
                 mode |-> mode, tmpdirs |-> 0, srcFiles |-> 0, spawned |-> 0]
    /\ cur = NoRun
    /\ prev = NoRun
    /\ hist = <<>>
    /\ hullObjs = <<>>
    /\ MergeIdle
    /\ CmdIdle
    /\ TmpIdle
    /\ XfIdle
    /\ OpIdle
    /\ dicer \in {[pc |-> "start", n |-> n, src |-> None, next |-> 3,
                   xy |-> <<>>, xz |-> <<>>, yz |-> <<>>, i |-> 1, k |-> 0,
                   counts |-> {}] : n \in 1..MaxOffsets}

dicerRest == <<collections, runRest, mergeVars, cmdVars, tmpVars, xfVars,
               opVars>>

\* main: create_test_object(), the assertion and src_obj
CreateTestObject ==
    /\ dicer.pc = "start"
    /\ objects' = (dicer.next :> Obj(Icosphere, None, {"Collection"}, 0, -1))
    /\ selected' = {dicer.next}
    /\ active' = dicer.next
    /\ mode' = "OBJECT"
    /\ dicer' = [dicer EXCEPT !.pc = "xy", !.src = dicer.next,
                              !.next = dicer.next + 1]
    /\ UNCHANGED dicerRest

\* the list slice_obj is slicing the members of, per stage
SlicedList == IF dicer.pc = "xz" THEN dicer.xy ELSE dicer.xz

\* whether slice_obj_with_planes is running, and its src_obj
Slicing ==
    \/ dicer.pc = "xy"
    \/ dicer.pc \in {"xz", "yz"} /\ dicer.i <= Len(SlicedList)
SliceSource == IF dicer.pc = "xy" THEN dicer.src ELSE SlicedList[dicer.i]

\* slice_obj_with_planes: one pass of the loop over zip(offset[:-1],
\* offset[1:]): duplicate_object, the two bisections, transform_apply, append
SlicePair ==
    /\ Slicing
    /\ dicer.k < dicer.n - 1
    /\ LET dst == dicer.next
       IN  /\ objects' = objects @@
                  (dst :> Obj(DupName(objects, Icosphere), None,
                              {"Collection"}, 0, -1))
           /\ selected' = {dst}
           /\ active' = dst
           /\ dicer' = [dicer EXCEPT !.next = dst + 1, !.k = dicer.k + 1,
                                     ![dicer.pc] = Append(@, dst)]
    /\ mode' = "OBJECT"
    /\ UNCHANGED dicerRest

\* slice_obj_with_planes returns slice_objs; in the loops of slice_obj the
\* sliced object is then removed: remove_obj(obj)
ReturnSlices ==
    /\ Slicing
    /\ dicer.k = dicer.n - 1
    /\ IF dicer.pc = "xy"
       THEN /\ dicer' = [dicer EXCEPT !.pc = "xz", !.i = 1, !.k = 0,
                                      !.counts = @ \cup {dicer.k}]
            /\ UNCHANGED <<objects, selected, active>>
       ELSE /\ objects' = DeleteObjects(objects, {SliceSource})
            /\ selected' = {}
            /\ active' = IF active = SliceSource THEN None ELSE active
            /\ dicer' = [dicer EXCEPT !.i = dicer.i + 1, !.k = 0,
                                      !.counts = @ \cup {dicer.k}]
    /\ UNCHANGED mode
    /\ UNCHANGED dicerRest

\* slice_obj: a loop over slice_xy or slice_xz has ended
NextStage ==
    /\ dicer.pc \in {"xz", "yz"}
    /\ dicer.i > Len(SlicedList)
    /\ dicer' = [dicer EXCEPT !.pc = IF dicer.pc = "xz" THEN "yz" ELSE "rename",
                              !.i = 1]
    /\ UNCHANGED <<objects, selected, active, mode>>
    /\ UNCHANGED dicerRest

\* slice_obj: obj.name = f"slice-{i}"
RenameSlice ==
    /\ dicer.pc = "rename"
    /\ dicer.i <= Len(dicer.yz)
    /\ objects' = [objects EXCEPT ![dicer.yz[dicer.i]].name =
                      UniqueName(objects, dicer.yz[dicer.i],
                                 SliceName(dicer.i - 1))]
    /\ dicer' = [dicer EXCEPT !.i = dicer.i + 1]
    /\ UNCHANGED <<selected, active, mode>>
    /\ UNCHANGED dicerRest

\* slice_obj returns slice_yz; main: explode_obj, and the source object is
\* selected again
Reselect ==
    /\ dicer.pc = "rename"
    /\ dicer.i > Len(dicer.yz)
    /\ mode' = "OBJECT"
    /\ selected' = {dicer.src}
    /\ dicer' = [dicer EXCEPT !.pc = "done"]
    /\ UNCHANGED <<objects, active>>
    /\ UNCHANGED dicerRest

DicerNext ==
    \/ CreateTestObject
    \/ SlicePair
    \/ ReturnSlices
    \/ NextStage
    \/ RenameSlice
    \/ Reselect

DicerSpec == DicerInit /\ [][DicerNext]_vars

(***************************************************************************)
(* Properties.                                                             *)
(***************************************************************************)
\* execute has been called and the scene is as that call has left it so far
InRun == pc \notin {"idle", "cleared"}

\* name is "UCX_" + r + "_" + anything
Owned(name, r) ==
    \E k \in 0..Len(name) :
        name = UCX \o r \o <<"_">> \o SubSeq(name, Len(name) - k + 1, Len(name))

UcxName(r, i) == UCX \o r \o <<"_">> \o Str(i)

RootName == scene0.objects[root].name

OwnedHulls == {o \in Ids(objects) : Owned(objects[o].name, RootName)}

\* C1: when execute has finished twice in succession for the same source
\* object, the solver having written the same k segments both times, exactly
\* k objects carry the prefix UCX_<source>_, and they are named
\* UCX_<source>_0 .. UCX_<source>_(k-1).
C1_IdempotentRerun ==
    (pc = "done" /\ prev # NoRun /\ prev.root = cur.root /\ prev.file = cur.file)
    => LET k == NumSegments(cur.file)
       IN  /\ Cardinality(OwnedHulls) = k
           /\ {objects[o].name : o \in OwnedHulls} =
                  {UcxName(RootName, i) : i \in 0..(k - 1)}

C1_Witness ==
    /\ pc = "done"
    /\ prev # NoRun
    /\ prev.root = cur.root
    /\ prev.file = cur.file
    /\ NumSegments(cur.file) >= 2

\* C2: right after remove_stale_hulls(root) (in Run, or as the Clear operator
\* of the earlier revision) every object that was named UCX_<root.name>_<...>
\* is gone, and every other object, the root and UCX_<root.name>Extra_0
\* included, is still in the scene under its name.
JustRemoved == hist # <<>> /\ hist[Len(hist)] \in {"remove", "clear"}

C2_OwnershipByPrefix ==
    JustRemoved =>
        \A o \in Ids(scene0.objects) :
            IF Owned(scene0.objects[o].name, RootName)
            THEN o \notin Ids(objects)
            ELSE o \in Ids(objects) /\ objects[o].name = scene0.objects[o].name

C2_Witness ==
    /\ JustRemoved
    /\ RootName = Cube
    /\ \E o \in Ids(scene0.objects) \ Ids(objects) :
            scene0.objects[o].name = UcxName(Cube, 0)
    /\ \E o \in Ids(objects) : objects[o].name = UcxName(CubeExtra, 0)

\* C3: once the hulls are renamed, the object imported from the i-th segment
\* of the solver output (i from 0, in file order) is named UCX_<source>_i.
C3_NumberingFollowsSolverOrder ==
    pc \in {"reconcile", "done"} =>
        \A o \in Ids(objects) :
            objects[o].run = runs =>
                objects[o].name = UcxName(RootName, objects[o].seg)

\* C4: when execute has finished for source S with a solver output of k
\* segments, exactly k objects carry the prefix UCX_S_, they are named
\* UCX_S_0 .. UCX_S_(k-1), each has parent S and is in the hull collection,
\* and the selection is {S}.
C4_RunPostcondition ==
    pc = "done" =>
        LET k == NumSegments(cur.file)
        IN  /\ Cardinality(OwnedHulls) = k
            /\ {objects[o].name : o \in OwnedHulls} =
                   {UcxName(RootName, i) : i \in 0..(k - 1)}
            /\ \A o \in OwnedHulls :
                   /\ objects[o].parent = root
                   /\ HullCollectionName \in objects[o].colls
            /\ selected = {root}

\* C5: an execute called outside OBJECT mode or with a selection of other
\* than one object reports the error and returns with the objects, the
\* selection, the active object, the temporary directories, the exported
\* files and the started solvers all as they were.
PreconditionFails ==
    scene0.mode # "OBJECT" \/ Cardinality(scene0.selected) # 1

C5_PreconditionFailureNoSideEffects ==
    (InRun /\ PreconditionFails) =>
        /\ pc = "rejected"
        /\ err = "precondition"
        /\ objects = scene0.objects
        /\ selected = scene0.selected
        /\ active = scene0.active
        /\ tmpdirs = scene0.tmpdirs
        /\ srcFiles = scene0.srcFiles
        /\ spawned = scene0.spawned

C5_Witness ==
    /\ pc = "rejected"
    /\ scene0.mode = "EDIT"
    /\ \E o \in Ids(objects) :
          /\ selected = {o}
          /\ \E h \in Ids(objects) : Owned(objects[h].name, objects[o].name)

\* C6: in an execute whose backend has no usable binary, no temporary
\* directory is created, no file exported and no solver started, and the
\* execute fails with a solver-missing error and the selection unchanged.
\* (An execute that its first SelectionGuard already ended is left aside.)
GuardFailed == err \in {"AssertionError", "ReferenceError"}

C6_MissingBinaryFailsBeforeTempFiles ==
    (InRun /\ pc # "rejected" /\ ~GuardFailed /\ Backend(solver) \notin binaries)
    => /\ tmpdirs = scene0.tmpdirs
       /\ srcFiles = scene0.srcFiles
       /\ spawned = scene0.spawned
       /\ pc # "done"
       /\ pc = "failed" =>
             err = "SolverMissingError" /\ selected = scene0.selected

\* C7: once the solver has exited with a non-zero code, execute does not go
\* on to import or rename a hull: no object imported by this execute exists.
C7_NonZeroExitStopsPipeline ==
    (InRun /\ proc.state = "exited" /\ proc.code # 0) =>
        \A o \in Ids(objects) : objects[o].run # runs

\* execute has failed at a step after the stale-hull removal
LateFailure == pc = "failed" /\ "export" \in Range(hist)

C9_GuardRestoresSelection ==
    guard.block # "none" =>
        selected = guard.sel /\ active = guard.act

\* C10: the steps of one execute are taken in the order validate, remove
\* stale hulls, export, solver, import, rename, reconcile; when the import
\* begins the solver has exited and no object carries the prefix
\* UCX_<source>_.
StepOrder ==
    <<"validate", "remove", "export", "solver", "import", "rename", "reconcile">>

IsPrefix(s, t) == Len(s) <= Len(t) /\ SubSeq(t, 1, Len(s)) = s

C10_PipelineStepOrder ==
    InRun =>
        /\ IsPrefix(hist, StepOrder)
        /\ pc = "done" => hist = StepOrder
        /\ pc = "import" => proc.state = "exited" /\ OwnedHulls = {}
        /\ "import" \in Range(hist) => proc.state = "exited"

C10_Witness ==
    /\ pc = "import"
    /\ hullFile # NoFile
    /\ \E o \in Ids(scene0.objects) : Owned(scene0.objects[o].name, RootName)

\* C14: the file import_solver_results writes back has, in place of the name
\* line of the i-th segment (from 0, in file order), the line
\* "o <hull_prefix><i>", and every other line as the solver wrote it.
C14_SegmentIndexRenaming ==
    ("import" \in Range(hist) /\ cur.file # NoFile) =>
        /\ Len(hullFile) = Len(cur.file)
        /\ \A i \in DOMAIN cur.file :
              IF cur.file[i].kind = "o"
              THEN hullFile[i] =
                       OLine(TmpHullPrefix \o Str(SegmentIndex(cur.file, i)))
              ELSE hullFile[i] = cur.file[i]


\* C15: a solver process is started only when the configured solver is VHACD
\* or CoACD, with the binary and the property group of that very backend;
\* under any other solver setting an execute starts no process.
C15_BackendSelection ==
    /\ proc.state # "none" =>
          /\ solver \in Backends
          /\ proc.binary = solver
          /\ proc.backend = solver
    /\ (InRun /\ solver \notin Backends) => spawned = scene0.spawned


\* C19: neither the stale-hull removal of an execute for source S nor
\* anything else the execute does deletes the hull of another object: an
\* object that was the child of an object other than S is still there.
C19_RemovalStaysWithOwner ==
    InRun =>
        \A o \in Ids(scene0.objects) :
            scene0.objects[o].parent \notin {None, root} => o \in Ids(objects)


\* C20: when remove_stale_hulls has run for the one object selected in OBJECT
\* mode, none of the objects its SelectionGuard saved on entry, selected or
\* active, is among the objects it deleted.
C20_GuardSavesNoDeletedObject ==
    guard.block = "remove_stale_hulls" =>
        /\ guard.sel \subseteq Ids(objects)
        /\ guard.act # None => guard.act \in Ids(objects)


\* C21: whenever a SelectionGuard block of an execute that passed
\* get_selected_object is left, the assertions of __exit__ hold: no
\* AssertionError is raised, also when no object was active.
C21_GuardAssertionsHold ==
    guard.block # "none" => guard.exc # "AssertionError"

\* C22: an object that was in the scene before the import under a name that
\* starts with the temporary hull prefix keeps its name, its parent and its
\* collections through rename_hulls and the reconcile step.
C22_RenameTouchesOnlyImports ==
    pc \in {"reconcile", "done"} =>
        \A o \in Ids(scene0.objects) \cap Ids(objects) :
            StartsWith(scene0.objects[o].name, TmpHullPrefix) =>
                /\ objects[o].name = scene0.objects[o].name
                /\ objects[o].parent = scene0.objects[o].parent
                /\ objects[o].colls = scene0.objects[o].colls


\* the hull collection and what the host would call further collections
\* made under its name
HullCollections == collections \cap {HullCollectionName, "convex hulls.001"}

\* C24: after the reconcile step of any run, every hull is linked to the hull
\* collection and to no other collection, and the scene has exactly one hull
\* collection: upsert_collection made it in the first run only.
C24_OneHullCollection ==
    pc = "done" =>
        /\ \A o \in Ids(objects) :
               StartsWith(objects[o].name, UCX) =>
                   objects[o].colls = {HullCollectionName}
        /\ HullCollections = {HullCollectionName}

\* a second run has placed hulls after a first run that made the collection
C24_Witness ==
    /\ pc = "done"
    /\ runs = 2
    /\ prev # NoRun
    /\ hullObjs # <<>>

(***************************************************************************)
(* Properties of merge_obj_files (MergeSpec).                              *)
(***************************************************************************)
VertCount(file) == Cardinality({k \in DOMAIN file : file[k].kind = "v"})

RECURSIVE VertsBefore(_, _)
VertsBefore(files, i) ==
    IF i = 0 THEN 0 ELSE VertsBefore(files, i - 1) + VertCount(files[i])

\* every line is a vertex or a face line, and every face index is an integer
\* that names a vertex of its own file
LocallyValid(files) ==
    \A i \in DOMAIN files : \A k \in DOMAIN files[i] :
        /\ files[i][k].kind \in {"v", "f"}
        /\ files[i][k].kind = "f" =>
              \A j \in DOMAIN files[i][k].arg :
                  /\ Len(files[i][k].arg[j]) = 1
                  /\ files[i][k].arg[j][1] \in 1..VertCount(files[i])

\* the names of the object-name lines of a document, in document order
NamesOf(doc) ==
    LET F[k \in 0..Len(doc)] ==
            IF k = 0 THEN <<>>
            ELSE IF doc[k].kind = "o" THEN Append(F[k - 1], doc[k].arg)
            ELSE F[k - 1]
    IN  F[Len(doc)]

StartOf(files, i) ==
    LET F[n \in 0..Len(files)] ==
            IF n = 0 THEN 0 ELSE F[n - 1] + 1 + Len(files[n])
    IN  F[i - 1] + 1

\* the vertex a merged document's index g names: that of its g-th vertex line
VertexAt(doc, g) ==
    LET vs == {k \in DOMAIN doc : doc[k].kind = "v"}
        k  == CHOOSE k \in vs : Cardinality({m \in vs : m <= k}) = g
    IN  doc[k].arg

\* C12: when merge_obj_files returns, the merged document is, file after file
\* in the order of out_files, the name line of the file followed by the
\* file's lines in their order, the vertex lines as they were and every face
\* index raised by the number of vertices of the files before; an index that
\* named vertex j of its file names that same vertex in the merged document.
C12_MergeOffsetAndOrder ==
    merged.state = "returned" =>
        /\ Len(merged.doc) = StartOf(outFiles, Len(outFiles) + 1) - 1
        /\ \A i \in DOMAIN outFiles :
              LET at  == StartOf(outFiles, i)
                  ofs == VertsBefore(outFiles, i - 1)
              IN  /\ merged.doc[at].kind = "o"
                  /\ \A k \in DOMAIN outFiles[i] :
                        LET src == outFiles[i][k]
                            out == merged.doc[at + k]
                        IN  /\ out.kind = src.kind
                            /\ src.kind = "v" => out = src
                            /\ src.kind = "f" =>
                                  /\ Len(out.arg) = Len(src.arg)
                                  /\ \A j \in DOMAIN src.arg :
                                        LET n == src.arg[j][1]
                                        IN  /\ out.arg[j] = Tok(n + ofs)
                                            /\ n \in 1..VertCount(outFiles[i]) =>
                                                  VertexAt(merged.doc, out.arg[j][1])
                                                      = <<i - 1, n>>

C12_Witness ==
    /\ merged.state = "returned"
    /\ Len(outFiles) = MaxParts
    /\ VertCount(outFiles[1]) >= 1
    /\ Cardinality({k \in DOMAIN outFiles[MaxParts] :
                       outFiles[MaxParts][k].kind = "f"}) >= 2

\* C13: merge_obj_files raises exactly when some line of some file is neither
\* a vertex line, a face line nor an object-name line, and when it raises it
\* has written no merged file.
C13_MergeFormatStrictness ==
    merged # NoMerge =>
        /\ merged.state = "raised" <=>
              \E i \in DOMAIN outFiles : \E k \in DOMAIN outFiles[i] :
                  outFiles[i][k].kind \notin {"v", "f", "o"}
        /\ merged.state = "raised" => ~merged.written

(***************************************************************************)
(* Properties of the command lines (CmdSpec).                              *)
(***************************************************************************)
BoolFields ==
    {"b_shrinkwrap", "b_split_location", "b_no_preprocess", "b_merge",
     "b_disable_merge", "b_pca"}
FloatFields == {"f_volume_error_percent", "f_threshold", "f_k"}
EnumFields == {"e_fill_mode"}

\* the values field F can take in the property group of the method called
ValuesOf(F) == {q[F] : q \in PropsOf(callee)}

\* the property group with field F set to v
With(F, v) == [props EXCEPT ![F] = v]

\* the token that states the value v of field F
ValueToken(F, v) ==
    IF F = "b_no_preprocess" THEN Word(IF v THEN "off" ELSE "auto")
    ELSE IF F \in BoolFields THEN Word(TrueFalse(v))
    ELSE IF F \in EnumFields THEN Word(v)
    ELSE IF F \in FloatFields THEN Num(StrFloat(v))
    ELSE Num(Str(v))

\* position i holds a flag, position i + 1 the value of field F, and the
\* command depends on F at position i + 1 only
PairAt(F, i) ==
    /\ cmd[i].kind = "flag"
    /\ \A v \in ValuesOf(F) :
          LET c == BuildCmd(callee, With(F, v))
          IN  /\ Len(c) = Len(cmd)
              /\ c[i + 1] = ValueToken(F, v)
              /\ \A j \in DOMAIN cmd : j # i + 1 => c[j] = cmd[j]

ExactlyOnePair(F) ==
    Cardinality({i \in 1..(Len(cmd) - 1) : PairAt(F, i)}) = 1

Without(c, i) == SubSeq(c, 1, i - 1) \o SubSeq(c, i + 1, Len(c))

\* field F decides whether one flag is in the command, and nothing else
PresentAbsent(F) ==
    LET c     == BuildCmd(callee, With(F, ~props[F]))
        long  == IF Len(c) > Len(cmd) THEN c ELSE cmd
        short == IF Len(c) > Len(cmd) THEN cmd ELSE c
    IN  /\ Len(long) = Len(short) + 1
        /\ \E i \in DOMAIN long :
              long[i].kind = "flag" /\ short = Without(long, i)

NoFlagTwice ==
    \A i, j \in DOMAIN cmd :
        (i < j /\ cmd[i].kind = "flag" /\ cmd[j].kind = "flag")
            => cmd[i].text # cmd[j].text

\* C16 as claimed: every field of the property group is passed as exactly one
\* flag/value pair, a VHACD boolean as "true"/"false" after its flag, a CoACD
\* boolean as a flag that is there or not, and no flag appears twice.
C16_FlagMappingAsClaimed ==
    cmd # NoCmd =>
        /\ NoFlagTwice
        /\ \A F \in DOMAIN props :
              IF callee.backend = "CoACD" /\ F \in BoolFields
              THEN PresentAbsent(F)
              ELSE ExactlyOnePair(F)

\* run_coacd of src/convex_decomposition.py hands b_no_preprocess over as a
\* value of --preprocess-mode
PassedAsValue(F) ==
    \/ callee.backend = "VHACD"
    \/ F \notin BoolFields
    \/ callee.rev = "convex_decomposition" /\ F = "b_no_preprocess"

\* C16 as amended: as claimed, but b_no_preprocess of
\* src/convex_decomposition.py is one flag/value pair, --preprocess-mode
\* followed by "off" or "auto".
C16_FlagMapping ==
    cmd # NoCmd =>
        /\ NoFlagTwice
        /\ \A F \in DOMAIN props :
              IF PassedAsValue(F) THEN ExactlyOnePair(F) ELSE PresentAbsent(F)

C16_Witness ==
    /\ cmd # NoCmd
    /\ callee = [rev |-> "convex_decomposition", backend |-> "CoACD"]
    /\ props.b_pca
    /\ ~props.b_merge
    /\ props.b_no_preprocess

(***************************************************************************)
(* Properties of the temporary files (TmpSpec).                            *)
(***************************************************************************)
\* the execute that wrote the vertex of a vertex line
WrittenBy(line) == line.arg[1]

\* C17: what an execute imports was written during that execute: every
\* vertex of the document it read comes from a file its own solver wrote.
C17_NoFileOfEarlierRunRead ==
    opc = "imported" =>
        \A k \in DOMAIN imported :
            imported[k].kind = "v" => WrittenBy(imported[k]) = oruns

(***************************************************************************)
(* Properties of the re-parent step (XfSpec).                              *)
(***************************************************************************)
\* C18 as claimed: for every world transform of the source object, when the
\* re-parent step has been taken the hull's world transform is the one it
\* had when it was imported.
C18_ParentingKeepsWorldAlways ==
    xpc \in {"parented", "ValueError"} => Same(World(hull, rootWorld), world0)

\* C18 as amended: for every world transform of the source object that has
\* an inverse, when the re-parent step has been taken the hull's parent is
\* the source object and its world transform is the one it had when it was
\* imported; for a transform without inverse the step raises ValueError.
C18_ParentingKeepsWorld ==
    /\ xpc = "parented" =>
          /\ hull.parent = 1
          /\ Same(World(hull, rootWorld), world0)
    /\ xpc \in {"parented", "ValueError"} =>
          (xpc = "parented" <=> Det(rootWorld) # 0)

C18_Witness ==
    /\ xpc = "parented"
    /\ Det(rootWorld) \notin {-1, 1}
    /\ rootWorld.b # 0
    /\ rootWorld.x # 0
    /\ hull.basis # Identity

(***************************************************************************)
(* Properties of the declared output path (CmdSpec).                       *)
(***************************************************************************)
\* the token that follows the flag f in the command, or NoCmd
After(f) ==
    IF \E i \in 1..(Len(cmd) - 1) : cmd[i] = Flag(f)
    THEN cmd[1 + CHOOSE i \in 1..(Len(cmd) - 1) : cmd[i] = Flag(f)]
    ELSE NoCmd

\* C25: run_vhacd returns decomp.obj and run_coacd returns hulls.obj, both in
\* the directory of the input file; the path run_coacd returns is the one
\* in the command after --output; the solver runs in the directory of the
\* input file; and the import step reads the returned path and no other.
C25_DeclaredOutputPath ==
    cmd # NoCmd =>
        /\ callee.backend = "VHACD" =>
               launch.ret = [kind |-> "path", text |-> <<"decomp.obj">>]
        /\ callee.backend = "CoACD" =>
               /\ launch.ret = [kind |-> "path", text |-> <<"hulls.obj">>]
               /\ After("--output") = launch.ret
               /\ After("--input") = ObjFile
        /\ launch.cwd = [kind |-> "path", text |-> <<>>]
        /\ launch.read \subseteq {launch.ret}

\* run_coacd has returned and the import step has read a file
C25_Witness ==
    /\ callee.backend = "CoACD"
    /\ cmd # NoCmd
    /\ launch.read # {}

(***************************************************************************)
(* Properties of the Select, export and split-by-face operators (OpsSpec). *)
(***************************************************************************)
\* the objects the last operator call created
Created == Ids(objects) \ Ids(before.objects)

\* C23: every object that split-by-face parents to a source S carries the
\* prefix UCX_<S>_, so that remove_stale_hulls(S) selects it for removal.
C23_AttachedHullsOwnedByPrefix ==
    before.op = "split" =>
        \A o \in Created :
            objects[o].parent # None =>
                /\ StartsWith(objects[o].name,
                              HullPrefix(objects[objects[o].parent].name))
                /\ o \in StaleHulls(objects, objects[o].parent)

\* the object the last export operator was called on, and whether
\* get_selected_object accepted the scene
ExportGot == GetSelectedObject(before.mode, before.selected)
Exporting == before.op \in {"fbx", "glb"} /\ ~ExportGot[2]

\* C26: when an export operator returns, the exporter was given the object
\* and exactly its children named UCX_..., with the object at the origin, and
\* the location of every object, the selection and the active object are
\* what they were before the call.
C26_ExportIsTemporary ==
    (Exporting /\ ret.kind = "set") =>
        /\ exported.objs =
               {ExportGot[1]} \cup
               {o \in Ids(before.objects) :
                    /\ before.objects[o].parent = ExportGot[1]
                    /\ StartsWith(before.objects[o].name, UCX)}
        /\ exported.at = <<0>>
        /\ location = before.location
        /\ selected = before.selected
        /\ active = before.active
        /\ objects = before.objects

\* Cube, away from the origin, was exported with its hull and without its
\* other child
C26_Witness ==
    /\ Exporting
    /\ ret.kind = "set"
    /\ ExportGot[1] = 1
    /\ before.location[1] # 0
    /\ exported.objs = {1, 3}

\* C27: when the FBX/GLB exporter raises inside unreal_export / godot_export,
\* the location of the object is what it was before the call.
C27_LocationRestoredOnError ==
    (Exporting /\ ret = Raised("RuntimeError")) =>
        location = before.location

\* C28: whenever an execute returns, what it returns is a status set,
\* {'FINISHED'} or {'CANCELLED'}, also when the host is not in OBJECT mode.
C28_ExecuteReturnsStatusSet ==
    (before.op # "none" /\ ret.kind # "raise") =>
        /\ ret.kind = "set"
        /\ ret.val \in {"FINISHED", "CANCELLED"}

\* C29: after the Select operator ran in OBJECT mode, the selection is the
\* previous selection together with the direct children of the previously
\* selected objects, and no object was created, deleted, renamed or
\* re-parented.
C29_SelectAddsDirectChildren ==
    (before.op = "select" /\ before.mode = "OBJECT") =>
        /\ selected =
               before.selected \cup
               {o \in Ids(before.objects) :
                    before.objects[o].parent \in before.selected}
        /\ before.selected \subseteq selected
        /\ objects = before.objects
        /\ active = before.active

\* Cube was selected: its two children are selected with it, its grandchild
\* is not
C29_Witness ==
    /\ before.op = "select"
    /\ before.mode = "OBJECT"
    /\ before.selected = {1}
    /\ selected = {1, 2, 3}

(***************************************************************************)
(* Properties of src/dicer.py (DicerSpec).                                 *)
(***************************************************************************)
Cubed(m) == m * m * m

\* C30: with an offset list of n values every call of slice_obj_with_planes
\* returns n-1 slices and slice_obj returns (n-1)^3 slices, named slice-0 to
\* slice-((n-1)^3 - 1) in the order of the list; no XY or XZ slice is left in
\* the scene, the source object is in the scene throughout, and main ends
\* with the source object as the only selected object.
C30_DicerCountAndCleanup ==
    /\ dicer.pc \notin {"off", "start"} => dicer.src \in Ids(objects)
    /\ dicer.pc = "done" =>
           /\ dicer.counts \subseteq {dicer.n - 1}
           /\ Len(dicer.yz) = Cubed(dicer.n - 1)
           /\ \A i \in 1..Len(dicer.yz) :
                  /\ dicer.yz[i] \in Ids(objects)
                  /\ objects[dicer.yz[i]].name =
                         <<"s", "l", "i", "c", "e", "-">> \o Str(i - 1)
           /\ (Range(dicer.xy) \cup Range(dicer.xz)) \cap Ids(objects) = {}
           /\ Ids(objects) = {dicer.src} \cup Range(dicer.yz)
           /\ selected = {dicer.src}

\* main has ended after slicing along three offsets: eight slices
C30_Witness ==
    /\ dicer.pc = "done"
    /\ dicer.n = 3
    /\ Len(dicer.xy) = 2
    /\ Len(dicer.xz) = 4
    /\ Len(dicer.yz) = 8

====
